---- MODULE Spec2Model ----
(***************************************************************************)
(* Model of the query operators and the charge-density client of mp_api:   *)
(*   - SynthesisSearchQuery.query  (routes/synthesis/query_operators.py)   *)
(*   - XASQuery.query              (xas/query_operator.py)                 *)
(*   - ChargeDensityRester.search / download_for_task_ids                  *)
(*                                  (routes/charge_density/client.py)      *)
(* Python values are modelled as follows: an Optional value is None (the   *)
(* empty tuple) or Some(v) (a one-element tuple); a dict is a function     *)
(* whose domain is its set of keys; a list is a sequence.                  *)
(***************************************************************************)
EXTENDS Integers, Sequences, FiniteSets, TLC

VARIABLES
    pc,     \* position of the call in progress
    args,   \* the arguments of the call
    ret,    \* None until the call returns, then Some(value)
    loc,    \* the local variables of a running loop
    world   \* what lies outside the call: the document store, the transport log, the files

vars == <<pc, args, ret, loc, world>>

(***************************************************************************)
(* Python values                                                           *)
(***************************************************************************)
None == <<>>

Some(v) == <<v>>

EmptyDict == [k \in {} |-> 0]

\* d[k] = v on a Python dict: a new key is added, an existing key is overwritten
Put(d, k, v) == [x \in (DOMAIN d) \cup {k} |-> IF x = k THEN v ELSE d[x]]

\* dict.update(other)
Update(d, other) ==
    [x \in (DOMAIN d) \cup (DOMAIN other) |-> IF x \in DOMAIN other THEN other[x] ELSE d[x]]

\* truthiness of an Optional[float]: None and 0 are falsy
TruthyNum(o) == o # None /\ o[1] # 0

\* truthiness of an Optional[str]: None and "" are falsy
TruthyStr(o) == o # None /\ o[1] # ""

\* truthiness of an Optional[List]: None and [] are falsy
TruthyList(o) == o # None /\ o[1] # <<>>

(***************************************************************************)
(* SynthesisSearchQuery.query                                              *)
(***************************************************************************)
DefaultSkip == 0

DefaultLimit == 10

\* "Max number of entries to return in a single query. Limited to 10."
MaxLimit == 10

\* Composition(formula).get_reduced_formula_and_factor()[0] on the formulas used here
ReducedFormula(f) ==
    CASE f = "Fe2O4" -> "FeO2"
      [] f = "FeO2" -> "FeO2"
      [] f = "Ba2Ti2O6" -> "BaTiO3"
      [] OTHER -> f

KeywordsValues == {None, Some(""), Some("sol-gel")}

SynthesisTypeValues == {None, Some(<<>>), Some(<<"solid-state">>)}

TargetFormulaValues == {None, Some(""), Some("Fe2O4")}

PrecursorFormulaValues == {None, Some(""), Some("Ba2Ti2O6")}

OperationsValues == {None, Some(<<>>), Some(<<"HeatingOperation">>)}

HeatingTemperatureMinValues == {None, Some(0), Some(300)}

HeatingTemperatureMaxValues == {None, Some(0), Some(500)}

HeatingTimeMinValues == {None, Some(0), Some(2)}

HeatingTimeMaxValues == {None, Some(0), Some(8)}

HeatingAtmosphereValues == {None, Some(<<"air">>)}

MixingDeviceValues == {None, Some(<<"zirconia">>)}

MixingMediaValues == {None, Some(<<"water">>)}

SkipValues == {DefaultSkip, 20}

LimitValues == {DefaultLimit, MaxLimit + 1}

SynthesisArgs ==
    [keywords : KeywordsValues,
     synthesis_type : SynthesisTypeValues,
     target_formula : TargetFormulaValues,
     precursor_formula : PrecursorFormulaValues,
     operations : OperationsValues,
     condition_heating_temperature_min : HeatingTemperatureMinValues,
     condition_heating_temperature_max : HeatingTemperatureMaxValues,
     condition_heating_time_min : HeatingTimeMinValues,
     condition_heating_time_max : HeatingTimeMaxValues,
     condition_heating_atmosphere : HeatingAtmosphereValues,
     condition_mixing_device : MixingDeviceValues,
     condition_mixing_media : MixingMediaValues,
     skip : SkipValues,
     limit : LimitValues]

ProjectDictBase ==
    [f \in {"_id", "doi", "synthesis_type", "reaction", "reaction_string", "operations",
            "target", "targets_formula", "targets_formula_s", "precursors",
            "precursors_formula_s", "paragraph_string"} |-> IF f = "_id" THEN 0 ELSE 1]

SearchMeta ==
    "search_score" :> ("$meta" :> "searchScore") @@ "highlights" :> ("$meta" :> "searchHighlights")

SearchStage(keywords) ==
    "$search" :> [index |-> "synth_descriptions",
                  search |-> [query |-> keywords, path |-> "paragraph_string"],
                  highlight |-> [path |-> "paragraph_string"]]

\* lines 75-101: the optional $search stage, then the $project stage
HeadStages(a) ==
    IF TruthyStr(a.keywords)
    THEN << SearchStage(a.keywords[1]), "$project" :> Update(ProjectDictBase, SearchMeta) >>
    ELSE << "$project" :> ProjectDictBase >>

\* one `if value: crit[key] = clause` statement
SetIf(crit, cond, key, clause) == IF cond THEN Put(crit, key, clause) ELSE crit

TemperaturePath == "operations.conditions.heating_temperature.values"

TimePath == "operations.conditions.heating_time.values"

\* lines 103-145: the criteria, built by the statements in source order
Crit(a) ==
    LET c0 == EmptyDict
        c1 == SetIf(c0, TruthyList(a.synthesis_type), "synthesis_type",
                    "$in" :> a.synthesis_type[1])
        c2 == SetIf(c1, TruthyStr(a.target_formula), "targets_formula_s",
                    ReducedFormula(a.target_formula[1]))
        c3 == SetIf(c2, TruthyStr(a.precursor_formula), "precursors_formula_s",
                    ReducedFormula(a.precursor_formula[1]))
        c4 == SetIf(c3, TruthyList(a.operations), "operations.type",
                    "$all" :> a.operations[1])
        c5 == SetIf(c4, TruthyNum(a.condition_heating_temperature_min), TemperaturePath,
                    "$gte" :> a.condition_heating_temperature_min[1])
        c6 == SetIf(c5, TruthyNum(a.condition_heating_temperature_max), TemperaturePath,
                    "$lte" :> a.condition_heating_temperature_max[1])
        c7 == SetIf(c6, TruthyNum(a.condition_heating_time_min), TimePath,
                    "$gte" :> a.condition_heating_time_min[1])
        c8 == SetIf(c7, TruthyNum(a.condition_heating_time_max), TimePath,
                    "$lte" :> a.condition_heating_time_max[1])
        c9 == SetIf(c8, TruthyList(a.condition_heating_atmosphere),
                    "operations.conditions.heating_atmosphere",
                    "$all" :> a.condition_heating_atmosphere[1])
        c10 == SetIf(c9, TruthyList(a.condition_mixing_device),
                     "operations.conditions.mixing_device",
                     "$all" :> a.condition_mixing_device[1])
        c11 == SetIf(c10, TruthyList(a.condition_mixing_media),
                     "operations.conditions.mixing_media",
                     "$all" :> a.condition_mixing_media[1])
    IN  c11

\* the $match stage appended without the `if crit:` test
MatchStages_Always(crit) == << "$match" :> crit >>

\* lines 147-148: the $match stage is appended only for a non-empty crit
MatchStages(crit) == IF DOMAIN crit # {} THEN << "$match" :> crit >> ELSE << >>

\* the closing stages with $limit applied before $skip
TailStages_LimitFirst(skip, limit) ==
    << "$sort" :> ("search_score" :> -1), "$limit" :> limit, "$skip" :> skip >>

\* lines 156-158
TailStages(skip, limit) ==
    << "$sort" :> ("search_score" :> -1), "$skip" :> skip, "$limit" :> limit >>

\* lines 60-160: the value returned by SynthesisSearchQuery.query
SynthesisQuery(a) ==
    [pipeline |-> HeadStages(a) \o MatchStages(Crit(a)) \o TailStages(a.skip, a.limit)]

(***************************************************************************)
(* XASQuery.query                                                          *)
(***************************************************************************)
\* members of the Edge enum, and pymatgen Elements; both are always truthy when given
EdgeValues == {None, Some([name |-> "K", value |-> "K"]), Some([name |-> "L2_3", value |-> "L2,3"])}

ElementValues == {None, Some([symbol |-> "Fe", Z |-> 26]), Some([symbol |-> "O", Z |-> 8])}

XASArgs == [edge : EdgeValues, absorbing_element : ElementValues]

\* lines 16-19: None marks the value of an absent parameter
XASRaw(a) ==
    "edge" :> (IF a.edge # None THEN Some(a.edge[1].value) ELSE None)
    @@ "absorbing_element" :>
         (IF a.absorbing_element # None THEN Some(a.absorbing_element[1].symbol) ELSE None)

\* line 20: {k: v for k, v in query.items() if v}
XASFilter(q) ==
    LET keep == {k \in DOMAIN q : TruthyStr(q[k])}
    IN  [k \in keep |-> q[k][1]]

\* line 22
XASQuery(a) ==
    LET query == XASFilter(XASRaw(a))
    IN  IF Cardinality(DOMAIN query) > 0 THEN "criteria" :> query ELSE EmptyDict

(***************************************************************************)
(* Query operators as a state machine: the request parameters are drawn in *)
(* the initial state and the operator is applied to them.                  *)
(***************************************************************************)
InitQuery ==
    /\ \/ /\ pc = "synthesis_call"
          /\ args \in SynthesisArgs
       \/ /\ pc = "xas_call"
          /\ args \in XASArgs
    /\ ret = None
    /\ loc = None
    /\ world = None

SynthesisSearch ==
    /\ pc = "synthesis_call"
    /\ ret' = Some(SynthesisQuery(args))
    /\ pc' = "synthesis_done"
    /\ UNCHANGED <<args, loc, world>>

XASSearch ==
    /\ pc = "xas_call"
    /\ ret' = Some(XASQuery(args))
    /\ pc' = "xas_done"
    /\ UNCHANGED <<args, loc, world>>

NextQuery == SynthesisSearch \/ XASSearch

QuerySpec == InitQuery /\ [][NextQuery]_vars

(***************************************************************************)
(* ChargeDensityRester.search: the keyword arguments handed to the base    *)
(* class, and the chunked retrieval loop of the base class BaseRester      *)
(* (mp_api.core.client), which follows the documented state machine of the *)
(* chunked retrieval client: Idle -> Fetching -> Idle or Done.             *)
(***************************************************************************)
DefaultNumChunks == 1

DefaultChunkSize == 10

MaxDocs == 6

MaxChunkSize == 3

MaxNumChunks == 3

Min(a, b) == IF a < b THEN a ELSE b

TaskId(i) == "mp-" \o ToString(i)

\* a stored charge-density document
ChgcarDataDoc(i) == [task_id |-> TaskId(i), last_updated |-> 2020 + i, data |-> "chgcar"]

Stores == {[i \in 1 .. n |-> ChgcarDataDoc(i)] : n \in 0 .. MaxDocs}

NumChunksValues == {None} \cup {Some(n) : n \in 1 .. MaxNumChunks} \cup {Some(DefaultNumChunks)}

ChunkSizeValues == (1 .. MaxChunkSize) \cup {DefaultChunkSize}

SearchArgs == [num_chunks : NumChunksValues, chunk_size : ChunkSizeValues]

\* search forwarding the default chunk size instead of its argument
SearchKwargs_DefaultChunk(num_chunks, chunk_size) ==
    [num_chunks |-> num_chunks,
     chunk_size |-> DefaultChunkSize,
     all_fields |-> FALSE,
     fields |-> {"last_updated", "task_id"}]

\* search forwarding no chunk cap
SearchKwargs_NoCap(num_chunks, chunk_size) ==
    [num_chunks |-> None,
     chunk_size |-> chunk_size,
     all_fields |-> FALSE,
     fields |-> {"last_updated", "task_id"}]

\* client.py lines 65-70: what search passes on to super().search
SearchKwargs(num_chunks, chunk_size) ==
    [num_chunks |-> num_chunks,
     chunk_size |-> chunk_size,
     all_fields |-> FALSE,
     fields |-> {"last_updated", "task_id"}]

\* the projection of a document on the requested fields
ProjectFields(doc, kw) ==
    IF kw.all_fields THEN doc ELSE [f \in kw.fields |-> doc[f]]

\* the transport boundary: standard offset pagination over the store
Page(store, skip, limit, kw) ==
    [i \in 1 .. (Min(skip + limit, Len(store)) - Min(skip, Len(store))) |->
        ProjectFields(store[skip + i], kw)]

ChargeDensitySearch ==
    /\ pc = "search_call"
    /\ loc' = [kw |-> SearchKwargs(args.num_chunks, args.chunk_size),
               skip |-> 0, chunks |-> 0, results |-> << >>]
    /\ pc' = "fetching"
    /\ UNCHANGED <<args, ret, world>>

\* one Fetching step: request one page at the current offset, append it,
\* advance the offset by the number of documents returned, count the chunk;
\* stop on a short page or when the chunk counter reaches num_chunks
FetchPage ==
    /\ pc = "fetching"
    /\ LET kw == loc.kw
           page == Page(world.store, loc.skip, kw.chunk_size, kw)
           chunks == loc.chunks + 1
           results == loc.results \o page
           finished == \/ Len(page) < kw.chunk_size
                       \/ (kw.num_chunks # None /\ chunks = kw.num_chunks[1])
       IN  /\ world' = [world EXCEPT !.calls = Append(@, [skip |-> loc.skip, limit |-> kw.chunk_size])]
           /\ loc' = [loc EXCEPT !.skip = @ + Len(page), !.chunks = chunks, !.results = results]
           /\ IF finished
              THEN pc' = "search_done" /\ ret' = Some(results)
              ELSE pc' = "fetching" /\ UNCHANGED ret
    /\ UNCHANGED args

(***************************************************************************)
(* ChargeDensityRester.download_for_task_ids                               *)
(***************************************************************************)
MaxIds == 3

IdPool == {TaskId(1), TaskId(2)}

ExtValues == {"json.gz", "json", "mpk", "mpk.gz"}

PathValues == {"chgcars"}

TaskIdLists == UNION {[1 .. n -> IdPool] : n \in 0 .. MaxIds}

DownloadArgs == [path : PathValues, task_ids : TaskIdLists, ext : ExtValues]

DocStore == {[task_id |-> id, last_updated |-> 2021, data |-> "chgcar of " \o id] : id \in IdPool}

\* BaseRester.get_document_by_id: the single document whose primary key is the id
GetDocumentById(store, document_id) == CHOOSE d \in store : d.task_id = document_id

\* the file name built without the extension
DumpTarget_NoExt(path, doc, ext) == path \o "/" \o doc.task_id

\* line 47: path / f"{doc.task_id}.{ext}"
DumpTarget(path, doc, ext) == path \o "/" \o doc.task_id \o "." \o ext

\* lines 43-44
DownloadStart ==
    /\ pc = "download_call"
    /\ loc' = [num_downloads |-> 0, path |-> args.path, i |-> 1]
    /\ pc' = "download_loop"
    /\ UNCHANGED <<args, ret, world>>

\* lines 45-48: one iteration in which the fetch and the write both succeed
DownloadOne ==
    /\ pc = "download_loop"
    /\ loc.i <= Len(args.task_ids)
    /\ LET task_id == args.task_ids[loc.i]
           doc == GetDocumentById(world.store, task_id)
           target == DumpTarget(loc.path, doc, args.ext)
       IN  /\ world' = [world EXCEPT !.fetches = Append(@, task_id),
                                     !.writes = Append(@, target),
                                     !.files = @ \cup {target}]
           /\ loc' = [loc EXCEPT !.num_downloads = @ + 1, !.i = @ + 1]
    /\ UNCHANGED <<pc, args, ret>>

\* line 46 raises: the exception leaves the method, nothing is returned
DownloadFetchRaises ==
    /\ pc = "download_loop"
    /\ loc.i <= Len(args.task_ids)
    /\ world' = [world EXCEPT !.fetches = Append(@, args.task_ids[loc.i])]
    /\ pc' = "download_raised"
    /\ loc' = None
    /\ UNCHANGED <<args, ret>>

\* line 47 raises after a successful fetch: the exception leaves the method,
\* nothing is returned; the file may or may not have been left behind
DownloadWriteRaises ==
    /\ pc = "download_loop"
    /\ loc.i <= Len(args.task_ids)
    /\ LET task_id == args.task_ids[loc.i]
           doc == GetDocumentById(world.store, task_id)
           target == DumpTarget(loc.path, doc, args.ext)
       IN  \E partial \in BOOLEAN :
               world' = [world EXCEPT !.fetches = Append(@, task_id),
                                      !.files = IF partial THEN @ \cup {target} ELSE @]
    /\ pc' = "download_raised"
    /\ loc' = None
    /\ UNCHANGED <<args, ret>>

\* line 49
DownloadReturn ==
    /\ pc = "download_loop"
    /\ loc.i > Len(args.task_ids)
    /\ ret' = Some(loc.num_downloads)
    /\ pc' = "download_done"
    /\ UNCHANGED <<args, loc, world>>

InitClient ==
    /\ \/ /\ pc = "search_call"
          /\ args \in SearchArgs
          /\ world \in [store : Stores, calls : {<< >>}]
       \/ /\ pc = "download_call"
          /\ args \in DownloadArgs
          /\ world = [store |-> DocStore, fetches |-> << >>, writes |-> << >>, files |-> {}]
    /\ ret = None
    /\ loc = None

NextClient ==
    \/ ChargeDensitySearch
    \/ FetchPage
    \/ DownloadStart
    \/ DownloadOne
    \/ DownloadFetchRaises
    \/ DownloadWriteRaises
    \/ DownloadReturn

ClientSpec == InitClient /\ [][NextClient]_vars

\* the client is synchronous: a call in progress always takes its next step
FairClientSpec == ClientSpec /\ WF_vars(NextClient)

(***************************************************************************)
(* Properties of the charge-density client                                 *)
(***************************************************************************)
\* the documents of the store, in store order, as search returns them
Expected(n) == [i \in 1 .. n |-> [task_id |-> TaskId(i), last_updated |-> 2020 + i]]

Ceil(a, b) == (a + b - 1) \div b

SearchFinished == pc = "search_done"

C4_ChunkCap ==
    /\ (pc \in {"fetching", "search_done"} /\ args.num_chunks # None) =>
           Len(world.calls) <= args.num_chunks[1]
    /\ (SearchFinished /\ args.num_chunks # None) =>
           ret = Some(Expected(Min(Len(world.store), args.num_chunks[1] * args.chunk_size)))

\* the cap cuts the result short: more documents are stored than were returned
C4_Witness ==
    /\ SearchFinished
    /\ args.num_chunks = Some(2)
    /\ Len(world.calls) = 2
    /\ Len(ret[1]) = 2 * args.chunk_size
    /\ Len(world.store) > Len(ret[1])

\* C6: when the fetch-and-write of the k-th identifier fails, no later identifier
\* is fetched or written, the files of identifiers 1..k-1 remain, and the caller
\* receives the partial result (the count of the k-1 completed writes) together
\* with the failing identifier.
C6_PartialResultSurfaced ==
    pc = "download_raised" =>
        LET k == Len(world.fetches)
        IN  /\ world.fetches = SubSeq(args.task_ids, 1, k)
            /\ Len(world.writes) = k - 1
            /\ \A i \in 1 .. (k - 1) : world.writes[i] \in world.files
            /\ ret # None
            /\ ret[1].count = k - 1
            /\ ret[1].failing = args.task_ids[k]

\* C7: when no fetch or write fails, the identifiers are processed in list
\* order with one fetch and one write each, the file of identifier i is written
\* at path/{i}.{ext}, and the returned count is the number of writes, which is
\* the length of the identifier list.
C7_SuccessfulExport ==
    pc = "download_done" =>
        /\ world.fetches = args.task_ids
        /\ world.writes =
               [i \in 1 .. Len(args.task_ids) |->
                   args.path \o "/" \o args.task_ids[i] \o "." \o args.ext]
        /\ world.files = {world.writes[i] : i \in 1 .. Len(world.writes)}
        /\ ret = Some(Len(world.writes))
        /\ ret = Some(Len(args.task_ids))

\* three identifiers exported, two of them distinct
C7_Witness ==
    /\ pc = "download_done"
    /\ Len(args.task_ids) = 3
    /\ ret = Some(3)
    /\ Cardinality(world.files) = 2


(***************************************************************************)
(* Properties of the query operators                                       *)
(***************************************************************************)
StageKind(stage) == CHOOSE k \in DOMAIN stage : TRUE

Pipeline == ret[1].pipeline

Kinds == [i \in 1 .. Len(Pipeline) |-> StageKind(Pipeline[i])]

HasStage(kind) == \E i \in 1 .. Len(Pipeline) : StageKind(Pipeline[i]) = kind

StageOf(kind) == Pipeline[CHOOSE i \in 1 .. Len(Pipeline) : StageKind(Pipeline[i]) = kind][kind]

\* the criteria of the emitted $match stage; no stage, no criteria
EmittedCrit == IF HasStage("$match") THEN StageOf("$match") ELSE EmptyDict

Ranges ==
    { [min |-> "condition_heating_temperature_min", max |-> "condition_heating_temperature_max",
       path |-> TemperaturePath],
      [min |-> "condition_heating_time_min", max |-> "condition_heating_time_max",
       path |-> TimePath] }

\* the parameter that feeds each non-range key path
KeyParam ==
    "synthesis_type" :> "synthesis_type"
    @@ "targets_formula_s" :> "target_formula"
    @@ "precursors_formula_s" :> "precursor_formula"
    @@ "operations.type" :> "operations"
    @@ "operations.conditions.heating_atmosphere" :> "condition_heating_atmosphere"
    @@ "operations.conditions.mixing_device" :> "condition_mixing_device"
    @@ "operations.conditions.mixing_media" :> "condition_mixing_media"

\* the key paths fed by a string parameter; the others are fed by a list
FormulaKeys == {"targets_formula_s", "precursors_formula_s"}

FilterParams ==
    {KeyParam[k] : k \in DOMAIN KeyParam} \cup {r.min : r \in Ranges} \cup {r.max : r \in Ranges}

\* C1: for each numeric range, when both min and max are supplied the $match
\* criterion on the range's key path holds both $gte = min and $lte = max; when
\* only one is supplied it holds exactly that bound.
C1_RangeBothBounds ==
    pc = "synthesis_done" =>
        \A r \in Ranges :
            LET lo == args[r.min]
                hi == args[r.max]
                crit == EmittedCrit
            IN  /\ (lo # None /\ hi # None) =>
                    /\ r.path \in DOMAIN crit
                    /\ crit[r.path] = ("$gte" :> lo[1] @@ "$lte" :> hi[1])
                /\ (lo # None /\ hi = None) =>
                    /\ r.path \in DOMAIN crit
                    /\ crit[r.path] = ("$gte" :> lo[1])
                /\ (lo = None /\ hi # None) =>
                    /\ r.path \in DOMAIN crit
                    /\ crit[r.path] = ("$lte" :> hi[1])

\* C2: the returned pipeline obeys the stage order: $search, if present, is
\* first and $project follows it immediately; $match comes after $project and
\* before $sort; the pipeline ends with $sort, $skip, $limit in that order; no
\* stage kind occurs twice.
C2_StageOrdering ==
    pc = "synthesis_done" =>
        LET k == Kinds
            n == Len(Kinds)
        IN  /\ n >= 3
            /\ k[n - 2] = "$sort" /\ k[n - 1] = "$skip" /\ k[n] = "$limit"
            /\ \A i \in 1 .. n : k[i] = "$search" => (i = 1 /\ k[2] = "$project")
            /\ \A i \in 1 .. n : k[i] = "$match" =>
                   /\ \E j \in 1 .. (i - 1) : k[j] = "$project"
                   /\ \E j \in (i + 1) .. n : k[j] = "$sort"
            /\ \A i, j \in 1 .. n : k[i] = k[j] => i = j
            /\ \E i \in 1 .. n : k[i] = "$project"

\* a pipeline with all six stage kinds has been returned
C2_Witness ==
    /\ pc = "synthesis_done"
    /\ HasStage("$search")
    /\ HasStage("$match")
    /\ Len(Pipeline) = 6

\* C5: a limit above the maximum page size is refused: the call returns no
\* pipeline, and no emitted $limit stage exceeds the maximum.
C5_LimitClamp ==
    pc = "synthesis_done" =>
        /\ args.limit > MaxLimit => "pipeline" \notin DOMAIN ret[1]
        /\ "pipeline" \in DOMAIN ret[1] => StageOf("$limit") <= MaxLimit

\* C8: criteria exist only for supplied parameters: every key path of the
\* synthesis criteria (and every bound of a range clause) has its parameter
\* supplied, with no filter parameter supplied there is no $match stage, and
\* XASQuery's criteria hold only supplied parameters and are omitted (an empty
\* result without a 'criteria' key) when none is supplied.
C8_OnlySuppliedClauses ==
    /\ pc = "synthesis_done" =>
        LET crit == EmittedCrit
        IN  /\ \A k \in DOMAIN crit :
                   \/ k \in DOMAIN KeyParam /\ args[KeyParam[k]] # None
                   \/ \E r \in Ranges :
                          /\ k = r.path
                          /\ DOMAIN crit[k] \subseteq {"$gte", "$lte"}
                          /\ DOMAIN crit[k] # {}
                          /\ "$gte" \in DOMAIN crit[k] => args[r.min] # None
                          /\ "$lte" \in DOMAIN crit[k] => args[r.max] # None
            /\ HasStage("$match") => DOMAIN crit # {}
            /\ (\A p \in FilterParams : args[p] = None) => ~HasStage("$match")
    /\ pc = "xas_done" =>
        /\ DOMAIN ret[1] \subseteq {"criteria"}
        /\ "criteria" \in DOMAIN ret[1] =>
               /\ DOMAIN ret[1]["criteria"] # {}
               /\ \A k \in DOMAIN ret[1]["criteria"] : args[k] # None
        /\ (\A p \in DOMAIN args : args[p] = None) => ret[1] = EmptyDict

\* a partial parameter set: one filter supplied, another absent, a $match emitted
C8_Witness ==
    /\ pc = "synthesis_done"
    /\ args.target_formula # None
    /\ args.operations = None
    /\ args.condition_heating_time_max # None
    /\ args.condition_heating_time_min = None
    /\ DOMAIN EmittedCrit = {"targets_formula_s", TimePath}

\* C9: with a keyword the pipeline sorts by descending search score and the
\* projection exposes the score and the highlights; without a keyword there is
\* no $sort stage on the search score.
C9_SortPolicy ==
    pc = "synthesis_done" =>
        /\ TruthyStr(args.keywords) =>
               /\ HasStage("$sort")
               /\ StageOf("$sort") = ("search_score" :> -1)
               /\ {"search_score", "highlights"} \subseteq DOMAIN StageOf("$project")
        /\ args.keywords = None =>
               ~(HasStage("$sort") /\ "search_score" \in DOMAIN StageOf("$sort"))

\* C10: a filter parameter supplied with a falsy value (0, "", []) still has
\* its criterion in the emitted query.
C10_FalsyValuesKept ==
    /\ pc = "synthesis_done" =>
        LET crit == EmittedCrit
        IN  /\ \A k \in FormulaKeys : args[KeyParam[k]] = Some("") => k \in DOMAIN crit
            /\ \A k \in (DOMAIN KeyParam) \ FormulaKeys :
                   args[KeyParam[k]] = Some(<<>>) => k \in DOMAIN crit
            /\ \A r \in Ranges :
                   /\ args[r.min] = Some(0) =>
                          /\ r.path \in DOMAIN crit
                          /\ "$gte" \in DOMAIN crit[r.path]
                          /\ crit[r.path]["$gte"] = 0
                   /\ args[r.max] = Some(0) =>
                          /\ r.path \in DOMAIN crit
                          /\ "$lte" \in DOMAIN crit[r.path]
                          /\ crit[r.path]["$lte"] = 0
    /\ pc = "xas_done" =>
        \A p \in DOMAIN args :
            args[p] # None => "criteria" \in DOMAIN ret[1] /\ p \in DOMAIN ret[1]["criteria"]

====
